---- MODULE Spec2Model ----
(***************************************************************************)
(* State-machine model of CaptchaSolver (src/src/solver.ts, the class at   *)
(* lines 503-1002): initialize, preprocessImage(s), solveCaptcha,          *)
(* solveBatch, getStats, isReady, getGpuStatus.                            *)
(*                                                                         *)
(* JavaScript runs every handler to completion between two awaits, so one  *)
(* action is the code between two suspension points.  Numbers that the     *)
(* code keeps as floats are exact rationals <<numerator, denominator>> in  *)
(* lowest terms; Infinity is <<1, 0>>.                                     *)
(***************************************************************************)
EXTENDS Integers, Sequences, FiniteSets, Bags, TLC

VARIABLES
    session,          \* this.session: Null or the engine handle
    metadata,         \* this.metadata: Null or the parsed document
    isInitialized,    \* this.isInitialized
    cache,            \* height, width, mean, std, validCharacters, inputName
    gpuStatus,        \* this.gpuStatus
    stats,            \* this.stats
    env,              \* process.env.USE_GPU, process.platform, the backends
                      \* the runtime reports as available
    init,             \* position and locals of the initialize() call, and the
                      \* log of what it awaited (observer)
    calls,            \* the solveCaptcha / solveBatch calls suspended at an await
    settled,          \* the call that has just returned, until its caller resumes
    now,              \* performance.now()
    hist              \* observer: what the callers have submitted and received,
                      \* and the statistics object a caller holds

vars == <<session, metadata, isInitialized, cache, gpuStatus, stats, env,
          init, calls, settled, now, hist>>

---------------------------------------------------------------------------
(* Bounds of the model *)

MaxCalls == 2       \* calls that can be in flight together
MaxBatch == 2       \* longest imageBuffers array of a solveBatch call
MaxAttempts == 3    \* images submitted in Ready state over a whole run
MaxClock == 1       \* last value of the millisecond clock

---------------------------------------------------------------------------
(* Exact arithmetic on the numbers the code keeps as floats *)

RECURSIVE GCD(_, _)
GCD(a, b) == IF b = 0 THEN a ELSE GCD(b, a % b)

Norm(n, d) == LET g == GCD(n, d) IN <<n \div g, d \div g>>

Zero == <<0, 1>>
Infinity == <<1, 0>>
RatOfInt(k) == <<k, 1>>

RatAdd(a, b) == Norm(a[1] * b[2] + b[1] * a[2], a[2] * b[2])
RatMulInt(a, k) == Norm(a[1] * k, a[2])
RatDivInt(a, k) == Norm(a[1], a[2] * k)
RatLe(a, b) == a[1] * b[2] <= b[1] * a[2]
RatLt(a, b) == a[1] * b[2] < b[1] * a[2]
MathMin(a, b) == IF RatLt(b, a) THEN b ELSE a
MathMax(a, b) == IF RatLt(a, b) THEN b ELSE a

RECURSIVE RatSum(_)
RatSum(s) == IF s = <<>> THEN Zero ELSE RatAdd(s[1], RatSum(Tail(s)))

---------------------------------------------------------------------------
(* Values *)

(* null: in a field that otherwise holds an object, a backend name, or a
   code (a sequence of one-character strings). *)
Null == [null |-> TRUE]
NullName == "null"
NullCode == <<"null">>
Pending == [pending |-> TRUE]
SessionHandle == [outputNames |-> <<"out0", "out1", "out2", "out3">>,
                  inputNames |-> <<"input">>]

NumPositions == 4

GpuProviders == {"cuda", "dml", "tensorrt", "rocm"}

(* A metadata document as JSON.parse returns it.  idx_to_char has no entry
   for class 5, and class 4 maps to a character outside chars. *)
GoodMetadata ==
    [input_shape |-> <<1, 1, 2, 3>>,
     chars |-> <<"A", "3", "B", "7">>,
     idx_to_char |-> (0 :> <<"A">> @@ 1 :> <<"3">> @@ 2 :> <<"B">> @@
                      3 :> <<"7">> @@ 4 :> <<"z">>),
     normalization |-> [mean |-> <<5>>, std |-> <<5>>]]

BadShapeMetadata == [GoodMetadata EXCEPT !.input_shape = <<2, 3>>]
NoNormMetadata ==
    [input_shape |-> <<1, 1, 2, 3>>,
     chars |-> <<"A", "3", "B", "7">>,
     idx_to_char |-> GoodMetadata.idx_to_char]

MetadataDocs == {GoodMetadata, BadShapeMetadata, NoNormMetadata}

(* More documents that JSON.parse can return: an input_shape of length 5,
   normalization without mean or without std, and mean or std empty. *)
LongShapeMetadata == [GoodMetadata EXCEPT !.input_shape = <<1, 1, 1, 2, 3>>]
NoMeanMetadata ==
    [input_shape |-> <<1, 1, 2, 3>>,
     chars |-> <<"A", "3", "B", "7">>,
     idx_to_char |-> GoodMetadata.idx_to_char,
     normalization |-> [std |-> <<5>>]]
NoStdMetadata ==
    [input_shape |-> <<1, 1, 2, 3>>,
     chars |-> <<"A", "3", "B", "7">>,
     idx_to_char |-> GoodMetadata.idx_to_char,
     normalization |-> [mean |-> <<5>>]]
EmptyMeanMetadata == [GoodMetadata EXCEPT !.normalization.mean = <<>>]
EmptyStdMetadata == [GoodMetadata EXCEPT !.normalization.std = <<>>]

StartupMetadataDocs ==
    MetadataDocs \cup {LongShapeMetadata, NoMeanMetadata, NoStdMetadata,
                       EmptyMeanMetadata, EmptyStdMetadata}

(* The value of array[0] for an array that has no element 0. *)
Undefined == [undefined |-> TRUE]

---------------------------------------------------------------------------
(* Construction: the field initialisers of the class *)

InitialGpuStatus ==
    [enabled |-> FALSE, available |-> FALSE, provider |-> NullName,
     availableProviders |-> <<>>, requestedProviders |-> <<>>]

InitialStats ==
    [totalAttempts |-> 0, successfulDecodes |-> 0, failures |-> 0,
     averageConfidence |-> Zero, averageSolveTimeMs |-> Zero,
     minSolveTimeMs |-> Infinity, maxSolveTimeMs |-> Zero]

InitialCache ==
    [height |-> 0, width |-> 0, mean |-> 0, std |-> 0,
     validCharacters |-> {}, inputName |-> ""]

InitialHist ==
    [submitted |-> 0, okResults |-> 0, failResults |-> 0,
     confSum |-> Zero, timeSum |-> 0, timeMin |-> Infinity, timeMax |-> Zero,
     failedAttempts |-> 0, snapshot |-> Null, gpuSnapshot |-> Null]

(* process.env.USE_GPU !== "false", process.platform and the backends the
   runtime has on this machine, for the processes that go on to serve. *)
Environments ==
    {[useGpu |-> TRUE, platform |-> "win32",
      availableProviders |-> <<"cuda", "cpu">>],
     [useGpu |-> FALSE, platform |-> "linux",
      availableProviders |-> <<"cpu">>]}

(* What a runtime can report as available. *)
ReportedProviderLists ==
    {<<"cpu">>, <<"cuda", "cpu">>, <<"dml", "cuda", "cpu">>, <<"tensorrt">>}

(* Every combination of flag, platform and reported backends. *)
StartupEnvironments ==
    [useGpu : BOOLEAN, platform : {"win32", "linux"},
     availableProviders : ReportedProviderLists]

(* initialize() has not been called: no local is set, nothing was awaited. *)
InitialInit ==
    [pc |-> "idle", executionProviders |-> <<>>, sessionCreated |-> FALSE,
     creates |-> <<>>, warmUp |-> [input |-> Null, outcome |-> "none"]]

Constructed ==
    /\ session = Null
    /\ metadata = Null
    /\ isInitialized = FALSE
    /\ cache = InitialCache
    /\ gpuStatus = InitialGpuStatus
    /\ stats = InitialStats
    /\ init = InitialInit
    /\ calls = EmptyBag
    /\ settled = Null
    /\ now = 0
    /\ hist = InitialHist

Init == Constructed /\ env \in Environments

---------------------------------------------------------------------------
(* initialize(modelPath, metadataPath) *)

PreferenceList(platform) ==
    IF platform = "win32" THEN <<"dml", "cuda", "cpu">> ELSE <<"cuda", "cpu">>

(* StatusAfterCreate without the final re-enabling of lines 654-657. *)
StatusAfterCreate_KeepsDisabled(g, useGpu, sessionCreated, executionProviders) ==
    LET firstRequested == executionProviders[1]
        g1 == IF ~sessionCreated
              THEN [g EXCEPT !.provider = "cpu", !.available = FALSE,
                             !.enabled = FALSE]
              ELSE IF useGpu /\ sessionCreated
                   THEN IF firstRequested \in GpuProviders
                        THEN [g EXCEPT !.provider = firstRequested,
                                       !.available = TRUE]
                        ELSE [g EXCEPT !.provider = "cpu", !.available = FALSE]
                   ELSE [g EXCEPT !.provider = "cpu", !.available = FALSE]
    IN  [g1 EXCEPT !.requestedProviders = executionProviders,
                   !.availableProviders = executionProviders]

(* Lines 618-657: the status recorded after a session exists. *)
StatusAfterCreate(g, useGpu, sessionCreated, executionProviders) ==
    LET firstRequested == executionProviders[1]
        g1 == IF ~sessionCreated
              THEN [g EXCEPT !.provider = "cpu", !.available = FALSE,
                             !.enabled = FALSE]
              ELSE IF useGpu /\ sessionCreated
                   THEN IF firstRequested \in GpuProviders
                        THEN [g EXCEPT !.provider = firstRequested,
                                       !.available = TRUE]
                        ELSE [g EXCEPT !.provider = "cpu", !.available = FALSE]
                   ELSE [g EXCEPT !.provider = "cpu", !.available = FALSE]
        g2 == [g1 EXCEPT !.requestedProviders = executionProviders,
                         !.availableProviders = executionProviders]
    IN  IF g2.enabled = FALSE /\ useGpu
        THEN [g2 EXCEPT !.enabled = useGpu]
        ELSE g2

(* One InferenceSession.create call: the executionProviders of its options
   and whether it resolved (lines 563-576, 596-609). *)
Created(executionProviders, ok) ==
    [executionProviders |-> executionProviders, ok |-> ok]

(* Initialize_Call asking for the preference list whatever USE_GPU says. *)
Initialize_Call_IgnoresFlag ==
    /\ init.pc = "idle"
    /\ init' = [init EXCEPT !.pc = "createGpu",
                            !.executionProviders = PreferenceList(env.platform)]
    /\ UNCHANGED <<session, metadata, isInitialized, cache, gpuStatus, stats,
                   env, calls, settled, now, hist>>

(* Lines 535-561 and 588-609: entry, up to the first InferenceSession.create. *)
Initialize_Call ==
    /\ init.pc = "idle"
    /\ init' = IF env.useGpu
               THEN [init EXCEPT !.pc = "createGpu",
                                 !.executionProviders = PreferenceList(env.platform)]
               ELSE [init EXCEPT !.pc = "createCpu",
                                 !.executionProviders = <<"cpu">>]
    /\ UNCHANGED <<session, metadata, isInitialized, cache, gpuStatus, stats,
                   env, calls, settled, now, hist>>

(* Initialize_GpuCreate with the failure of the first create propagated to
   the caller of initialize(). *)
Initialize_GpuCreate_Propagates ==
    /\ init.pc = "createGpu"
    /\ \E ok \in BOOLEAN :
         IF ok
         THEN /\ session' = SessionHandle
              /\ gpuStatus' = StatusAfterCreate(gpuStatus, env.useGpu, TRUE,
                                                init.executionProviders)
              /\ init' = [init EXCEPT !.pc = "readMetadata",
                                      !.sessionCreated = TRUE,
                                      !.creates = Append(@, Created(init.executionProviders, TRUE))]
         ELSE /\ session' = session
              /\ gpuStatus' = gpuStatus
              /\ init' = [init EXCEPT !.pc = "failed",
                                      !.creates = Append(@, Created(init.executionProviders, FALSE))]
    /\ UNCHANGED <<metadata, isInitialized, cache, stats, env, calls, settled, now, hist>>

(* Lines 562-587 and 618-661: create with the full preference list settles. *)
Initialize_GpuCreate ==
    /\ init.pc = "createGpu"
    /\ \E ok \in BOOLEAN :
         IF ok
         THEN /\ session' = SessionHandle
              /\ gpuStatus' = StatusAfterCreate(gpuStatus, env.useGpu, TRUE,
                                                init.executionProviders)
              /\ init' = [init EXCEPT !.pc = "readMetadata",
                                      !.sessionCreated = TRUE,
                                      !.creates = Append(@, Created(init.executionProviders, TRUE))]
         ELSE /\ session' = session
              /\ gpuStatus' = [gpuStatus EXCEPT !.enabled = FALSE]
              /\ init' = [init EXCEPT !.pc = "createCpu",
                                      !.executionProviders = <<"cpu">>,
                                      !.creates = Append(@, Created(init.executionProviders, FALSE))]
    /\ UNCHANGED <<metadata, isInitialized, cache, stats, env, calls, settled, now, hist>>

(* Lines 595-617, 651-661 and 699-702: create with ["cpu"] settles. *)
Initialize_CpuCreate ==
    /\ init.pc = "createCpu"
    /\ \E ok \in BOOLEAN :
         IF ok
         THEN /\ session' = SessionHandle
              /\ gpuStatus' = StatusAfterCreate(gpuStatus, env.useGpu, FALSE,
                                                init.executionProviders)
              /\ init' = [init EXCEPT !.pc = "readMetadata",
                                      !.creates = Append(@, Created(<<"cpu">>, TRUE))]
         ELSE /\ session' = session
              /\ gpuStatus' = gpuStatus
              /\ init' = [init EXCEPT !.pc = "failed",
                                      !.creates = Append(@, Created(<<"cpu">>, FALSE))]
    /\ UNCHANGED <<metadata, isInitialized, cache, stats, env, calls, settled, now, hist>>

(* ShapeOk accepting every input_shape of three or more entries. *)
ShapeOk_AtLeastThree(doc) == Len(doc.input_shape) >= 3

(* Lines 669-684: the cached values, or a throw. *)
ShapeOk(doc) == Len(doc.input_shape) \in {3, 4}
HasNormalization(doc) == "normalization" \in DOMAIN doc

(* normalization.mean[0] and normalization.std[0] (lines 681-682) throw a
   TypeError when normalization, mean or std is absent; an empty array has
   no element 0 and yields undefined without a throw. *)
HasMean(doc) == HasNormalization(doc) /\ "mean" \in DOMAIN doc.normalization
HasStd(doc) == HasNormalization(doc) /\ "std" \in DOMAIN doc.normalization
ElementZero(array) == IF Len(array) >= 1 THEN array[1] ELSE Undefined

HeightOf(doc) ==
    IF Len(doc.input_shape) = 3 THEN doc.input_shape[2] ELSE doc.input_shape[3]
WidthOf(doc) ==
    IF Len(doc.input_shape) = 3 THEN doc.input_shape[3] ELSE doc.input_shape[4]

CacheOf(doc) ==
    [height |-> HeightOf(doc),
     width |-> WidthOf(doc),
     mean |-> ElementZero(doc.normalization.mean),
     std |-> ElementZero(doc.normalization.std),
     validCharacters |-> {doc.chars[i] : i \in 1..Len(doc.chars)},
     inputName |-> SessionHandle.inputNames[1]]

(* Lines 687-693: new Float32Array(height * width).fill(0) with dims
   [1, 1, height, width]. *)
DummyTensor(height, width) ==
    [data |-> [i \in 1..(height * width) |-> 0],
     dims |-> <<1, 1, height, width>>]

(* Lines 661-695 and 699-702: readFile settles; parse, validate, cache, and
   start the warm-up run. *)
Initialize_ReadMetadata(doc) ==
    /\ init.pc = "readMetadata"
    /\ \/ /\ init' = [init EXCEPT !.pc = "failed"]      \* readFile or JSON.parse throws
          /\ UNCHANGED <<metadata, cache>>
       \/   /\ metadata' = doc
            /\ IF ~ShapeOk(doc)
               THEN /\ cache' = cache
                    /\ init' = [init EXCEPT !.pc = "failed"]
               ELSE IF ~HasMean(doc)
               THEN /\ cache' = [cache EXCEPT !.height = HeightOf(doc),
                                               !.width = WidthOf(doc)]
                    /\ init' = [init EXCEPT !.pc = "failed"]
               ELSE IF ~HasStd(doc)
               THEN /\ cache' = [cache EXCEPT
                                    !.height = HeightOf(doc),
                                    !.width = WidthOf(doc),
                                    !.mean = ElementZero(doc.normalization.mean)]
                    /\ init' = [init EXCEPT !.pc = "failed"]
               ELSE /\ cache' = CacheOf(doc)
                    /\ init' = [init EXCEPT !.pc = "warmup",
                                            !.warmUp.input = DummyTensor(HeightOf(doc), WidthOf(doc))]
    /\ UNCHANGED <<session, isInitialized, gpuStatus, stats, env, calls, settled, now, hist>>

(* Initialize_WarmUp with isInitialized set whether or not the run threw. *)
Initialize_WarmUp_IgnoresFailure ==
    /\ init.pc = "warmup"
    /\ \E ok \in BOOLEAN :
         /\ isInitialized' = TRUE
         /\ init' = IF ok
                    THEN [init EXCEPT !.pc = "ready", !.warmUp.outcome = "ok"]
                    ELSE [init EXCEPT !.pc = "failed",
                                      !.warmUp.outcome = "threw"]
    /\ UNCHANGED <<session, metadata, cache, gpuStatus, stats, env, calls, settled, now, hist>>

(* Lines 695-702: the warm-up run settles. *)
Initialize_WarmUp ==
    /\ init.pc = "warmup"
    /\ \E ok \in BOOLEAN :
         IF ok
         THEN /\ isInitialized' = TRUE
              /\ init' = [init EXCEPT !.pc = "ready", !.warmUp.outcome = "ok"]
         ELSE /\ isInitialized' = isInitialized
              /\ init' = [init EXCEPT !.pc = "failed",
                                      !.warmUp.outcome = "threw"]
    /\ UNCHANGED <<session, metadata, cache, gpuStatus, stats, env, calls, settled, now, hist>>

---------------------------------------------------------------------------
(* Inputs: images, and what the inference engine returns for their tensors *)

P(tenths) == Norm(tenths, 10)

(* A score vector over classes 0..5 that is zero except at class k. *)
OneHot(k, p) == [i \in 1..6 |-> IF i = k + 1 THEN p ELSE Zero]

OutputsFor(classes, scores) ==
    [name \in {SessionHandle.outputNames[i] : i \in 1..NumPositions} |->
        LET pos == CHOOSE i \in 1..NumPositions : SessionHandle.outputNames[i] = name
        IN  [data |-> OneHot(classes[pos], scores[pos])]]

HighOutputs == OutputsFor(<<0, 1, 2, 3>>, <<P(9), P(9), P(9), P(9)>>)     \* "A3B7", 0.9
LowOutputs == OutputsFor(<<0, 0, 2, 2>>, <<P(10), P(8), P(8), P(6)>>)     \* "AABB", 0.8
InvalidOutputs == OutputsFor(<<4, 1, 2, 3>>, <<P(10), P(10), P(10), P(10)>>) \* "z3B7"
MissingOutputs == [name \in {"out0", "out1"} |-> HighOutputs[name]]       \* out2 absent

Resolved(outputs) == [rejects |-> FALSE, outputs |-> outputs]
Rejected == [rejects |-> TRUE]

ImgCorrupt == [id |-> "corrupt", corrupt |-> TRUE]
ImgHigh == [id |-> "high", corrupt |-> FALSE]
ImgLow == [id |-> "low", corrupt |-> FALSE]
ImgInvalid == [id |-> "invalid", corrupt |-> FALSE]
ImgThrow == [id |-> "throw", corrupt |-> FALSE]

(* Buffers that decode but make a later step of preprocessImage throw. *)
ImgNoResize == [id |-> "noresize", corrupt |-> FALSE, fails |-> "resize"]
ImgNoTensor == [id |-> "notensor", corrupt |-> FALSE, fails |-> "tensor"]

Images == {ImgCorrupt, ImgHigh, ImgLow, ImgInvalid, ImgThrow}

(* An image for whose tensor the engine puts the score scores[pos] on class
   classes[pos] at each position. *)
ScoreImage(classes, scores) ==
    [id |-> "scores", corrupt |-> FALSE, classes |-> classes, scores |-> scores]

(* An image for whose tensor the engine returns the score vector
   vectors[pos] at each position. *)
VectorImage(vectors) ==
    [id |-> "vectors", corrupt |-> FALSE, vectors |-> vectors]

VectorOutputs(vectors) ==
    [name \in {SessionHandle.outputNames[i] : i \in 1..NumPositions} |->
        LET pos == CHOOSE i \in 1..NumPositions : SessionHandle.outputNames[i] = name
        IN  [data |-> vectors[pos]]]

(* session.run on the tensor of an image: the ways it can settle. *)
RunOutcomes(img) ==
    CASE img.id = "scores" -> {Resolved(OutputsFor(img.classes, img.scores))}
      [] img.id = "vectors" -> {Resolved(VectorOutputs(img.vectors))}
      [] img.id = "high" -> {Resolved(HighOutputs)}
      [] img.id = "low" -> {Resolved(LowOutputs)}
      [] img.id = "invalid" -> {Resolved(InvalidOutputs)}
      [] OTHER -> {Rejected, Resolved(MissingOutputs)}

ImageLists == UNION {[1..n -> Images] : n \in 0..MaxBatch}

---------------------------------------------------------------------------
(* preprocessImage: a tensor, or null when sharp or the Tensor constructor
   throws (lines 705-733) *)

(* The step of preprocessImage that throws for the image: sharp's decode
   for a corrupt buffer, or the step the image names. *)
FailsAt(img) ==
    IF img.corrupt THEN "decode"
    ELSE IF "fails" \in DOMAIN img THEN img.fails ELSE "none"

(* Lines 710-714: sharp(...).grayscale().resize(...).raw().toBuffer(). *)
SharpPipeline(img) ==
    IF FailsAt(img) \in {"decode", "resize"} THEN [threw |-> TRUE]
    ELSE [threw |-> FALSE, rawPixels |-> img]

(* Lines 723-728: new ort.Tensor("float32", normalized, dims). *)
NewTensor(img) ==
    IF FailsAt(img) = "tensor" THEN [threw |-> TRUE]
    ELSE [threw |-> FALSE, tensorOf |-> img]

(* preprocessImage with the Tensor constructor outside the try block. *)
PreprocessImage_TensorUncaught(img) ==
    IF SharpPipeline(img).threw THEN Null
    ELSE IF NewTensor(img).threw THEN [threw |-> TRUE]
    ELSE [tensorOf |-> img]

PreprocessImage(img) ==
    IF SharpPipeline(img).threw \/ NewTensor(img).threw THEN Null
    ELSE [tensorOf |-> img]

---------------------------------------------------------------------------
(* Decoding (lines 778-806, and the same text at 903-930) *)

UndefinedText == <<"u", "n", "d", "e", "f", "i", "n", "e", "d">>

(* let maxIdx = 0; for (i = 1; ...) if (charProbs[i] > maxProb) ... ;
   i and maxIdx are the code's 0-based indexes. *)
RECURSIVE ArgMaxFrom(_, _, _)
ArgMaxFrom(charProbs, i, maxIdx) ==
    IF i >= Len(charProbs) THEN maxIdx
    ELSE IF RatLt(charProbs[maxIdx + 1], charProbs[i + 1])
         THEN ArgMaxFrom(charProbs, i + 1, i)
         ELSE ArgMaxFrom(charProbs, i + 1, maxIdx)

(* The argmax loop keeping the last of several equal maxima. *)
ArgMax_LastWins(charProbs) ==
    CHOOSE maxIdx \in 0..(Len(charProbs) - 1) :
        /\ \A i \in 1..Len(charProbs) : RatLe(charProbs[i], charProbs[maxIdx + 1])
        /\ \A i \in (maxIdx + 2)..Len(charProbs) :
              RatLt(charProbs[i], charProbs[maxIdx + 1])

ArgMax(charProbs) == ArgMaxFrom(charProbs, 1, 0)

IdxToChar(idxToChar, maxIdx) ==
    IF maxIdx \in DOMAIN idxToChar THEN idxToChar[maxIdx] ELSE UndefinedText

Thrown == [threw |-> TRUE]

(* for (pos = 0; pos < 4; pos++): a missing output makes outputTensor.data
   throw a TypeError. *)
RECURSIVE DecodeFrom(_, _, _, _, _, _)
DecodeFrom(outputs, outputNames, idxToChar, pos, predictedText, confidences) ==
    IF pos >= NumPositions
    THEN [threw |-> FALSE, predictedText |-> predictedText,
          avgConfidence |-> RatDivInt(RatSum(confidences), Len(confidences))]
    ELSE LET outputName == outputNames[pos + 1]
         IN  IF outputName \notin DOMAIN outputs THEN Thrown
             ELSE LET charProbs == outputs[outputName].data
                      maxIdx == ArgMax(charProbs)
                  IN  DecodeFrom(outputs, outputNames, idxToChar, pos + 1,
                                 predictedText \o IdxToChar(idxToChar, maxIdx),
                                 Append(confidences, charProbs[maxIdx + 1]))

Decode(outputs, outputNames, idxToChar) ==
    DecodeFrom(outputs, outputNames, idxToChar, 0, <<>>, <<>>)

(* IsValid without the membership test of the characters. *)
IsValid_LengthOnly(predictedText, validCharacters) ==
    Len(predictedText) = 4

(* IsValid without the length test. *)
IsValid_CharsetOnly(predictedText, validCharacters) ==
    \A i \in 1..Len(predictedText) : predictedText[i] \in validCharacters

IsValid(predictedText, validCharacters) ==
    /\ Len(predictedText) = 4
    /\ \A i \in 1..Len(predictedText) : predictedText[i] \in validCharacters

---------------------------------------------------------------------------
(* Result records and the statistics updates *)

FailureRecord(solveTimeMs) ==
    [code |-> NullCode, success |-> FALSE, confidence |-> Zero,
     solveTimeMs |-> solveTimeMs]

SuccessRecord(predictedText, avgConfidence, solveTimeMs) ==
    [code |-> predictedText, success |-> TRUE, confidence |-> avgConfidence,
     solveTimeMs |-> solveTimeMs]

(* solveBatch's record before Ready carries no solveTimeMs (lines 880-885). *)
BatchNotReadyRecord ==
    [code |-> NullCode, success |-> FALSE, confidence |-> Zero]

(* this.stats.totalAttempts++ (lines 757, 896) *)
CountAttempt(s) == [s EXCEPT !.totalAttempts = @ + 1]

(* this.stats.failures++ (lines 762, 847, 861, 964, 974) *)
(* A failure path that leaves the failures counter alone. *)
RecordFailure_Uncounted(s) == s

RecordFailure(s) == [s EXCEPT !.failures = @ + 1]

(* Lines 811-822 and 935-946. *)
UpdateTiming(s, solveTimeMs) ==
    [s EXCEPT
       !.averageSolveTimeMs =
           RatDivInt(RatAdd(RatMulInt(s.averageSolveTimeMs, s.totalAttempts - 1),
                            RatOfInt(solveTimeMs)),
                     s.totalAttempts),
       !.minSolveTimeMs = MathMin(s.minSolveTimeMs, RatOfInt(solveTimeMs)),
       !.maxSolveTimeMs = MathMax(s.maxSolveTimeMs, RatOfInt(solveTimeMs))]

(* RecordSuccess with the running mean weighted by totalAttempts instead of
   successfulDecodes. *)
RecordSuccess_ByTotalAttempts(s, avgConfidence) ==
    [s EXCEPT
       !.successfulDecodes = @ + 1,
       !.averageConfidence =
           RatDivInt(RatAdd(RatMulInt(s.averageConfidence, s.totalAttempts - 1),
                            avgConfidence),
                     s.totalAttempts)]

(* Lines 825-829 and 949-954. *)
RecordSuccess(s, avgConfidence) ==
    LET n == s.successfulDecodes + 1
    IN  [s EXCEPT
           !.successfulDecodes = n,
           !.averageConfidence =
               RatDivInt(RatAdd(RatMulInt(s.averageConfidence, n - 1),
                                avgConfidence),
                         n)]

(* OnException with the error rethrown after it is counted and logged. *)
OnException_Rethrows(s, solveTimeMs) ==
    [stats |-> RecordFailure(s), result |-> FailureRecord(solveTimeMs),
     rejected |-> TRUE]

(* The catch blocks (lines 860-871 and 973-984). *)
OnException(s, solveTimeMs) ==
    [stats |-> RecordFailure(s), result |-> FailureRecord(solveTimeMs),
     rejected |-> FALSE]

(* The null-tensor branch of solveCaptcha (lines 761-771). *)
OnNoTensor(s, solveTimeMs) ==
    [stats |-> RecordFailure(s), result |-> FailureRecord(solveTimeMs),
     rejected |-> FALSE]

(* From the settling of session.run to the return (lines 774-871; the
   callback of solveBatch repeats it at lines 899-984). *)
OnRunSettled(s, outcome, outputNames, idxToChar, validCharacters, solveTimeMs) ==
    LET dec == IF outcome.rejects THEN Thrown
               ELSE Decode(outcome.outputs, outputNames, idxToChar)
    IN  IF dec.threw THEN OnException(s, solveTimeMs)
        ELSE LET timed == UpdateTiming(s, solveTimeMs)
             IN  IF IsValid(dec.predictedText, validCharacters)
                 THEN [stats |-> RecordSuccess(timed, dec.avgConfidence),
                       result |-> SuccessRecord(dec.predictedText,
                                                dec.avgConfidence, solveTimeMs),
                       rejected |-> FALSE]
                 ELSE [stats |-> RecordFailure(timed),
                       result |-> FailureRecord(solveTimeMs),
                       rejected |-> FALSE]

getStats == stats
isReady == isInitialized
getGpuStatus == gpuStatus

(* The guard of solveCaptcha and solveBatch letting every call through. *)
CanServe_Unguarded == TRUE

(* The guard of solveCaptcha and solveBatch (lines 747, 879). *)
(* The guard testing the session alone. *)
CanServe_SessionOnly == session # Null

CanServe == isInitialized /\ session # Null /\ metadata # Null

---------------------------------------------------------------------------
(* The callers' view: what was submitted in Ready state and what came back *)

RECURSIVE Observe(_, _)
Observe(h, results) ==
    IF results = <<>> THEN h
    ELSE LET r == Head(results)
             h1 == [h EXCEPT
                      !.okResults = IF r.success THEN @ + 1 ELSE @,
                      !.failResults = IF r.success THEN @ ELSE @ + 1,
                      !.confSum = IF r.success THEN RatAdd(@, r.confidence) ELSE @,
                      !.timeSum = @ + r.solveTimeMs,
                      !.timeMin = MathMin(@, RatOfInt(r.solveTimeMs)),
                      !.timeMax = MathMax(@, RatOfInt(r.solveTimeMs))]
         IN  Observe(h1, Tail(results))

(* One more attempt has failed for a recoverable reason. *)
Failed(h) == [h EXCEPT !.failedAttempts = @ + 1]

(* The calls suspended at an await form a bag: which caller holds which
   promise does not matter. *)
InFlight == BagToSet(calls)
Quiet == calls = EmptyBag

Suspend(r) == calls (+) SetToBag({r})
Resume(r, r2) == (calls (-) SetToBag({r})) (+) SetToBag({r2})
Finish(r) == calls (-) SetToBag({r})

(* A call that has settled resumes its caller in the same turn of the event
   loop, before any other completion is handled. *)
NoneSettled == settled = Null

CanCall == NoneSettled /\ BagCardinality(calls) < MaxCalls

---------------------------------------------------------------------------
(* solveCaptcha(imageBuffer, fid) *)

(* Lines 744-760: entry, up to the await of preprocessImage. *)
(* solveCaptcha holding the engine as busy while its call is in flight. *)
SolveCaptcha_Call_MarksBusy(img) ==
    /\ CanCall
    /\ IF ~CanServe
       THEN /\ settled' = [kind |-> "single", ready |-> FALSE,
                           images |-> <<img>>, outcome |-> "returned",
                           results |-> <<FailureRecord(0)>>]
            /\ UNCHANGED <<calls, stats, hist, isInitialized>>
       ELSE /\ hist.submitted + 1 <= MaxAttempts
            /\ stats' = CountAttempt(stats)
            /\ calls' = Suspend([pc |-> "preprocess", kind |-> "single",
                                 images |-> <<img>>, startTime |-> now])
            /\ hist' = [hist EXCEPT !.submitted = @ + 1]
            /\ isInitialized' = FALSE
            /\ UNCHANGED settled
    /\ UNCHANGED <<session, metadata, cache, gpuStatus, env, init, now>>

SolveCaptcha_Call(img) ==
    /\ CanCall
    /\ IF ~CanServe
       THEN /\ settled' = [kind |-> "single", ready |-> FALSE,
                           images |-> <<img>>, outcome |-> "returned",
                           results |-> <<FailureRecord(0)>>]
            /\ UNCHANGED <<calls, stats, hist>>
       ELSE /\ hist.submitted + 1 <= MaxAttempts
            /\ stats' = CountAttempt(stats)
            /\ calls' = Suspend([pc |-> "preprocess", kind |-> "single",
                                 images |-> <<img>>, startTime |-> now])
            /\ hist' = [hist EXCEPT !.submitted = @ + 1]
            /\ UNCHANGED settled
    /\ UNCHANGED <<session, metadata, isInitialized, cache, gpuStatus, env, init, now>>

(* SolveCaptcha_Preprocessed going on to session.run whatever
   preprocessImage returned. *)
SolveCaptcha_Preprocessed_IgnoresNull(r) ==
    /\ NoneSettled
    /\ r \in InFlight
    /\ r.pc = "preprocess"
    /\ r.kind = "single"
    /\ calls' = Resume(r, [r EXCEPT !.pc = "infer"])
    /\ UNCHANGED <<stats, hist, settled>>
    /\ UNCHANGED <<session, metadata, isInitialized, cache, gpuStatus, env, init, now>>

(* Lines 760-776: preprocessImage settles; null ends the attempt, a tensor
   starts session.run. *)
SolveCaptcha_Preprocessed(r) ==
    /\ NoneSettled
    /\ r \in InFlight
    /\ r.pc = "preprocess"
    /\ r.kind = "single"
    /\ LET inputTensor == PreprocessImage(r.images[1])
           done == OnNoTensor(stats, now - r.startTime)
       IN  IF inputTensor = Null
           THEN /\ stats' = done.stats
                /\ calls' = Finish(r)
                /\ settled' = [kind |-> "single", ready |-> TRUE,
                               images |-> r.images, origin |-> <<1>>,
                               outcome |-> "returned",
                               results |-> <<done.result>>]
                /\ hist' = Observe(Failed(hist), <<done.result>>)
           ELSE /\ calls' = Resume(r, [r EXCEPT !.pc = "infer"])
                /\ UNCHANGED <<stats, hist, settled>>
    /\ UNCHANGED <<session, metadata, isInitialized, cache, gpuStatus, env, init, now>>

(* Lines 774-871: session.run settles; decode, validate, update, return. *)
SolveCaptcha_Inferred(r) ==
    /\ NoneSettled
    /\ r \in InFlight
    /\ r.pc = "infer"
    /\ r.kind = "single"
    /\ \E outcome \in RunOutcomes(r.images[1]) :
         LET done == OnRunSettled(stats, outcome, session.outputNames,
                                  metadata.idx_to_char, cache.validCharacters,
                                  now - r.startTime)
         IN  /\ stats' = done.stats
             /\ calls' = Finish(r)
             /\ settled' = [kind |-> "single", ready |-> TRUE,
                            images |-> r.images, origin |-> <<1>>,
                            outcome |-> IF done.rejected THEN "rejected"
                                        ELSE "returned",
                            results |-> <<done.result>>]
             /\ hist' = IF done.rejected THEN hist
                        ELSE Observe(IF done.result.success THEN hist
                                     ELSE Failed(hist), <<done.result>>)
    /\ UNCHANGED <<session, metadata, isInitialized, cache, gpuStatus, env, init, now>>

---------------------------------------------------------------------------
(* preprocessImages and solveBatch(imageBuffers, ids) *)

(* tensors.filter((t) => t !== null) (line 741): the surviving tensors in
   order; ItemsKept names the input positions they came from. *)
ItemsKept(pre) ==
    SelectSeq([i \in 1..Len(pre) |-> i], LAMBDA i : pre[i] # Null)

FilterTensors(pre) == SelectSeq(pre, LAMBDA t : t # Null)

RECURSIVE CountAttempts(_, _)
CountAttempts(s, n) == IF n = 0 THEN s ELSE CountAttempts(CountAttempt(s), n - 1)

AllSettled(seq) == \A i \in 1..Len(seq) : seq[i] # Pending

(* Lines 875-889: entry, up to the await of preprocessImages.  An empty
   array passes through both Promise.all calls and returns []. *)
SolveBatch_Call(imageBuffers) ==
    /\ CanCall
    /\ IF ~CanServe
       THEN /\ settled' = [kind |-> "batch", ready |-> FALSE,
                           images |-> imageBuffers, outcome |-> "returned",
                           results |-> [i \in 1..Len(imageBuffers) |->
                                           BatchNotReadyRecord]]
            /\ UNCHANGED <<calls, hist>>
       ELSE /\ hist.submitted + Len(imageBuffers) <= MaxAttempts
            /\ hist' = [hist EXCEPT !.submitted = @ + Len(imageBuffers)]
            /\ IF imageBuffers = <<>>
               THEN /\ settled' = [kind |-> "batch", ready |-> TRUE,
                                   images |-> imageBuffers, origin |-> <<>>,
                                   outcome |-> "returned", results |-> <<>>]
                    /\ UNCHANGED calls
               ELSE /\ calls' = Suspend([pc |-> "preprocess", kind |-> "batch",
                                         images |-> imageBuffers,
                                         pre |-> [i \in 1..Len(imageBuffers) |->
                                                     Pending]])
                    /\ UNCHANGED settled
    /\ UNCHANGED <<session, metadata, isInitialized, cache, gpuStatus, stats,
                   env, init, now>>

(* solveBatch handing each tensor to session.run, and counting it, as soon
   as its own preprocessing has settled. *)
SolveBatch_ItemPreprocessed_Pipelined(r, i) ==
    /\ NoneSettled
    /\ r \in InFlight
    /\ r.pc = "preprocess"
    /\ r.kind = "batch"
    /\ i \in 1..Len(r.pre)
    /\ r.pre[i] = Pending
    /\ LET t == PreprocessImage(r.images[i])
           pre == [r.pre EXCEPT ![i] = t]
           tensors == FilterTensors(pre)
       IN  /\ hist' = IF t = Null THEN Failed(hist) ELSE hist
           /\ stats' = IF t = Null THEN stats ELSE CountAttempt(stats)
           /\ IF ~AllSettled(pre)
              THEN /\ calls' = Resume(r, [r EXCEPT !.pre = pre])
                   /\ UNCHANGED settled
              ELSE IF tensors = <<>>
                   THEN /\ calls' = Finish(r)
                        /\ settled' = [kind |-> "batch", ready |-> TRUE,
                                       images |-> r.images, origin |-> <<>>,
                                       outcome |-> "returned",
                                       results |-> <<>>]
                   ELSE /\ calls' = Resume(r,
                               [pc |-> "infer", kind |-> "batch",
                                images |-> r.images, tensors |-> tensors,
                                origin |-> ItemsKept(pre), startTime |-> now,
                                results |-> [k \in 1..Len(tensors) |-> Pending]])
                        /\ UNCHANGED settled
    /\ UNCHANGED <<session, metadata, isInitialized, cache, gpuStatus, env, init, now>>

(* Lines 736-742 and 889-901: one preprocessImage of the batch settles.  When
   it is the last one, Promise.all resolves, the nulls are filtered out and
   the map callback runs for every surviving tensor up to its await:
   startTime, totalAttempts++, session.run started. *)
SolveBatch_ItemPreprocessed(r, i) ==
    /\ NoneSettled
    /\ r \in InFlight
    /\ r.pc = "preprocess"
    /\ r.kind = "batch"
    /\ i \in 1..Len(r.pre)
    /\ r.pre[i] = Pending
    /\ LET t == PreprocessImage(r.images[i])
           pre == [r.pre EXCEPT ![i] = t]
           tensors == FilterTensors(pre)
       IN  /\ hist' = IF t = Null THEN Failed(hist) ELSE hist
           /\ IF ~AllSettled(pre)
              THEN /\ calls' = Resume(r, [r EXCEPT !.pre = pre])
                   /\ UNCHANGED <<stats, settled>>
              ELSE /\ stats' = CountAttempts(stats, Len(tensors))
                   /\ IF tensors = <<>>
                      THEN /\ calls' = Finish(r)
                           /\ settled' = [kind |-> "batch", ready |-> TRUE,
                                          images |-> r.images, origin |-> <<>>,
                                          outcome |-> "returned",
                                          results |-> <<>>]
                      ELSE /\ calls' = Resume(r,
                                  [pc |-> "infer", kind |-> "batch",
                                   images |-> r.images, tensors |-> tensors,
                                   origin |-> ItemsKept(pre), startTime |-> now,
                                   results |-> [k \in 1..Len(tensors) |-> Pending]])
                           /\ UNCHANGED settled
    /\ UNCHANGED <<session, metadata, isInitialized, cache, gpuStatus, env, init, now>>

(* Lines 899-988: session.run of one tensor of the batch settles; when it is
   the last one, Promise.all resolves and solveBatch returns results. *)
SolveBatch_ItemInferred(r, k) ==
    /\ NoneSettled
    /\ r \in InFlight
    /\ r.pc = "infer"
    /\ r.kind = "batch"
    /\ k \in 1..Len(r.results)
    /\ r.results[k] = Pending
    /\ \E outcome \in RunOutcomes(r.tensors[k].tensorOf) :
         LET done == OnRunSettled(stats, outcome, session.outputNames,
                                  metadata.idx_to_char, cache.validCharacters,
                                  now - r.startTime)
             results == [r.results EXCEPT ![k] = done.result]
             h == IF done.result.success THEN hist ELSE Failed(hist)
         IN  /\ stats' = done.stats
             /\ IF done.rejected \/ AllSettled(results)
                THEN /\ calls' = Finish(r)
                     /\ settled' = [kind |-> "batch", ready |-> TRUE,
                                    images |-> r.images, origin |-> r.origin,
                                    outcome |-> IF done.rejected THEN "rejected"
                                                ELSE "returned",
                                    results |-> results]
                     /\ hist' = IF done.rejected THEN hist
                                ELSE Observe(h, results)
                ELSE /\ calls' = Resume(r, [r EXCEPT !.results = results])
                     /\ hist' = h
                     /\ UNCHANGED settled
    /\ UNCHANGED <<session, metadata, isInitialized, cache, gpuStatus, env, init, now>>

---------------------------------------------------------------------------
(* The environment *)

(* The caller takes the settled promise. *)
Deliver ==
    /\ settled # Null
    /\ settled' = Null
    /\ UNCHANGED <<session, metadata, isInitialized, cache, gpuStatus, stats,
                   env, init, calls, now, hist>>

(* performance.now() advances; only the time that passes while an attempt
   is in flight is ever read. *)
Tick ==
    /\ now < MaxClock
    /\ NoneSettled
    /\ ~Quiet
    /\ now' = now + 1
    /\ UNCHANGED <<session, metadata, isInitialized, cache, gpuStatus, stats,
                   env, init, calls, settled, hist>>

Next ==
    \/ Initialize_Call
    \/ Initialize_GpuCreate
    \/ Initialize_CpuCreate
    \/ \E doc \in MetadataDocs : Initialize_ReadMetadata(doc)
    \/ Initialize_WarmUp
    \/ \E img \in Images : SolveCaptcha_Call(img)
    \/ \E r \in InFlight : SolveCaptcha_Preprocessed(r)
    \/ \E r \in InFlight : SolveCaptcha_Inferred(r)
    \/ \E imageBuffers \in ImageLists : SolveBatch_Call(imageBuffers)
    \/ \E r \in InFlight, i \in 1..MaxBatch : SolveBatch_ItemPreprocessed(r, i)
    \/ \E r \in InFlight, k \in 1..MaxBatch : SolveBatch_ItemInferred(r, k)
    \/ Deliver
    \/ Tick

Spec == Init /\ [][Next]_vars

---------------------------------------------------------------------------
(* The engine serving after a successful initialize() with USE_GPU=false,
   the clock standing still *)

ReadyState ==
    /\ session = SessionHandle
    /\ metadata = GoodMetadata
    /\ isInitialized = TRUE
    /\ cache = CacheOf(GoodMetadata)
    /\ gpuStatus = StatusAfterCreate(InitialGpuStatus, FALSE, FALSE, <<"cpu">>)
    /\ stats = InitialStats
    /\ env = [useGpu |-> FALSE, platform |-> "linux",
              availableProviders |-> <<"cpu">>]
    /\ init = [pc |-> "ready", executionProviders |-> <<"cpu">>,
               sessionCreated |-> FALSE,
               creates |-> <<Created(<<"cpu">>, TRUE)>>,
               warmUp |-> [input |-> DummyTensor(2, 3), outcome |-> "ok"]]
    /\ calls = EmptyBag
    /\ settled = Null
    /\ now = 0
    /\ hist = InitialHist

NextServe ==
    \/ \E img \in Images : SolveCaptcha_Call(img)
    \/ \E r \in InFlight : SolveCaptcha_Preprocessed(r)
    \/ \E r \in InFlight : SolveCaptcha_Inferred(r)
    \/ \E imageBuffers \in ImageLists : SolveBatch_Call(imageBuffers)
    \/ \E r \in InFlight, i \in 1..MaxBatch : SolveBatch_ItemPreprocessed(r, i)
    \/ \E r \in InFlight, k \in 1..MaxBatch : SolveBatch_ItemInferred(r, k)
    \/ Deliver

SpecServe == ReadyState /\ [][NextServe]_vars

---------------------------------------------------------------------------
(* Start-up in every environment: initialize() runs, and the callers call
   only while the engine is not Ready (before, during and after a failed
   initialize()) *)

(* Line 620: the runtime takes the first requested backend that it has, and
   the compute-only backend when it has none of them. *)
RECURSIVE ActiveProvider(_, _)
ActiveProvider(executionProviders, availableProviders) ==
    IF executionProviders = <<>> THEN "cpu"
    ELSE IF \E i \in 1..Len(availableProviders) :
                availableProviders[i] = Head(executionProviders)
         THEN Head(executionProviders)
         ELSE ActiveProvider(Tail(executionProviders), availableProviders)

StartupInit == Constructed /\ env \in StartupEnvironments

NextStartup ==
    \/ Initialize_Call
    \/ Initialize_GpuCreate
    \/ Initialize_CpuCreate
    \/ \E doc \in StartupMetadataDocs : Initialize_ReadMetadata(doc)
    \/ Initialize_WarmUp
    \/ \E img \in Images : ~isReady /\ SolveCaptcha_Call(img)
    \/ \E imageBuffers \in ImageLists : ~isReady /\ SolveBatch_Call(imageBuffers)
    \/ Deliver

SpecStartup == StartupInit /\ [][NextStartup]_vars

---------------------------------------------------------------------------
(* Claims *)

ReadyCallSettled == settled # Null /\ settled.ready

(* C1: in every reachable state, attempts suspended at an await included, a
   getStats snapshot has successfulDecodes + failures = totalAttempts. *)
C1_CountersAddUp ==
    getStats.successfulDecodes + getStats.failures = getStats.totalAttempts

(* C2: a solveBatch call made in Ready state returns exactly one result per
   input image, and the result at position i is the one of input image i. *)
C2_BatchOneToOne ==
    ReadyCallSettled /\ settled.kind = "batch" =>
        /\ Len(settled.results) = Len(settled.images)
        /\ \A i \in 1..Len(settled.results) : settled.origin[i] = i

(* C3: once the attempts made in Ready state have completed, totalAttempts
   has grown by their number: one per solveCaptcha call and one per input
   item of a solveBatch call. *)
C3_TotalCountsEveryAttempt ==
    Quiet => stats.totalAttempts = hist.submitted

(* C4: a step in which an attempt fails for a recoverable reason increases
   failures by exactly one and leaves successfulDecodes and
   averageConfidence as they were. *)
C4_FailureCountedOnce ==
    [][hist'.failedAttempts = hist.failedAttempts + 1 =>
          /\ stats'.failures = stats.failures + 1
          /\ stats'.successfulDecodes = stats.successfulDecodes
          /\ stats'.averageConfidence = stats.averageConfidence]_vars

(* C5: once all concurrent calls have returned, totalAttempts has grown by
   the number of attempts, successfulDecodes by the number of results with
   success = true and failures by the number with success = false. *)
C5_NoLostUpdate ==
    Quiet =>
        /\ stats.totalAttempts = hist.submitted
        /\ stats.successfulDecodes = hist.okResults
        /\ stats.failures = hist.failResults

(* C6: when no attempt is in flight and totalAttempts > 0, the solve-time
   average, minimum and maximum are those of the returned solveTimeMs of all
   attempts counted in totalAttempts. *)
C6_TimingAggregates ==
    Quiet /\ stats.totalAttempts > 0 =>
        /\ stats.averageSolveTimeMs = Norm(hist.timeSum, stats.totalAttempts)
        /\ stats.minSolveTimeMs = hist.timeMin
        /\ stats.maxSolveTimeMs = hist.timeMax

(* C7: whenever a snapshot shows totalAttempts > 0, it has
   minSolveTimeMs <= averageSolveTimeMs <= maxSolveTimeMs. *)
C7_MinAvgMax ==
    getStats.totalAttempts > 0 =>
        /\ RatLe(getStats.minSolveTimeMs, getStats.averageSolveTimeMs)
        /\ RatLe(getStats.averageSolveTimeMs, getStats.maxSolveTimeMs)

(* C8: after any sequence or interleaving of attempts, averageConfidence is
   the arithmetic mean of the confidences of exactly the results returned
   with success = true (0 while there is none), whatever failures are
   interleaved and in whatever order concurrent attempts complete. *)
C8_AverageConfidenceIsMean ==
    Quiet =>
        stats.averageConfidence =
            IF hist.okResults = 0 THEN Zero
            ELSE RatDivInt(hist.confSum, hist.okResults)

(* Successes at 0.9 and 0.8 with a failure among them average 0.85. *)
C8_Witness ==
    /\ Quiet
    /\ hist.okResults = 2
    /\ hist.failResults >= 1
    /\ hist.confSum = Norm(17, 10)
    /\ stats.averageConfidence = Norm(17, 20)

FailingImage(img) == img.id \in {"corrupt", "invalid", "throw"}

IsFailureRecord(r) ==
    r.success = FALSE /\ r.code = NullCode /\ r.confidence = Zero

(* C9: every attempt that fails at preprocessing, at inference or at
   validation has a result record, the one at its input's position, with
   success = false, code = null and confidence = 0.0. *)
C9_FailedAttemptHasFailureRecord ==
    ReadyCallSettled =>
        \A i \in 1..Len(settled.images) :
            FailingImage(settled.images[i]) =>
                /\ i <= Len(settled.results)
                /\ IsFailureRecord(settled.results[i])

WellFormed(r) ==
    /\ DOMAIN r = {"code", "success", "confidence", "solveTimeMs"}
    /\ r.success \in BOOLEAN
    /\ r.success => r.code # NullCode
    /\ ~r.success => r.code = NullCode

(* C10: a solveCaptcha or solveBatch call made in Ready state settles by
   returning well-formed result records, never by rejecting, whether
   preprocessing fails, session.run rejects or its outputs are malformed. *)
C10_CallsReturnRecords ==
    ReadyCallSettled =>
        /\ settled.outcome = "returned"
        /\ \A i \in 1..Len(settled.results) : WellFormed(settled.results[i])

(* A batch whose first image is corrupt and whose second makes the engine
   throw has returned. *)
C10_Witness ==
    /\ ReadyCallSettled
    /\ settled.kind = "batch"
    /\ settled.images = <<ImgCorrupt, ImgThrow>>
    /\ settled.outcome = "returned"
    /\ Len(settled.results) = 1
    /\ IsFailureRecord(settled.results[1])

---------------------------------------------------------------------------
(* getStats(): the object a caller holds, what the caller does to it, and
   the attempts that go on meanwhile *)

MaxMutations == 1

(* { ...object } with the same object handed back instead of a new one. *)
SpreadCopy_SameObject(fields) == [alias |-> TRUE, fields |-> fields]

(* { ...object } (line 992): a new object with the fields of the old one.
   alias tells whether a held object is the live one. *)
SpreadCopy(fields) == [alias |-> FALSE, fields |-> fields]

(* What the holder of an object reads from it. *)
FieldsOf(object, live) == IF object.alias THEN live ELSE object.fields

IntegerFields == {"totalAttempts", "successfulDecodes", "failures"}
MutableFields == {"totalAttempts", "averageConfidence", "minSolveTimeMs"}
Scribble(field) == IF field \in IntegerFields THEN 99 ELSE RatOfInt(99)

(* Lines 991-993: a caller calls getStats() and keeps the result; expected
   is what the caller believes the object holds. *)
GetStats ==
    /\ NoneSettled
    /\ hist' = [hist EXCEPT !.snapshot =
                   [object |-> SpreadCopy(getStats), expected |-> getStats,
                    mutations |-> 0]]
    /\ hist'.snapshot # hist.snapshot
    /\ UNCHANGED <<session, metadata, isInitialized, cache, gpuStatus, stats,
                   env, init, calls, settled, now>>

(* The caller assigns to a field of the object it holds. *)
MutateSnapshot(field) ==
    /\ NoneSettled
    /\ hist.snapshot # Null
    /\ hist.snapshot.mutations < MaxMutations
    /\ IF hist.snapshot.object.alias
       THEN /\ stats' = [stats EXCEPT ![field] = Scribble(field)]
            /\ hist' = [hist EXCEPT
                          !.snapshot.expected = [@ EXCEPT ![field] = Scribble(field)],
                          !.snapshot.mutations = @ + 1]
       ELSE /\ stats' = stats
            /\ hist' = [hist EXCEPT
                          !.snapshot.object.fields = [@ EXCEPT ![field] = Scribble(field)],
                          !.snapshot.expected = [@ EXCEPT ![field] = Scribble(field)],
                          !.snapshot.mutations = @ + 1]
    /\ UNCHANGED <<session, metadata, isInitialized, cache, gpuStatus, env,
                   init, calls, settled, now>>

SnapshotImages == {ImgHigh, ImgCorrupt}
SnapshotImageLists == UNION {[1..n -> SnapshotImages] : n \in 1..MaxBatch}

NextSnapshot ==
    \/ \E img \in SnapshotImages : SolveCaptcha_Call(img)
    \/ \E r \in InFlight : SolveCaptcha_Preprocessed(r)
    \/ \E r \in InFlight : SolveCaptcha_Inferred(r)
    \/ \E imageBuffers \in SnapshotImageLists : SolveBatch_Call(imageBuffers)
    \/ \E r \in InFlight, i \in 1..MaxBatch : SolveBatch_ItemPreprocessed(r, i)
    \/ \E r \in InFlight, k \in 1..MaxBatch : SolveBatch_ItemInferred(r, k)
    \/ Deliver
    \/ GetStats
    \/ \E field \in MutableFields : MutateSnapshot(field)

SpecSnapshot == ReadyState /\ [][NextSnapshot]_vars

(* C23: the object getStats() returned holds what it held when it was
   returned plus the caller's own assignments, whatever attempts complete
   afterwards; and an assignment to one of its fields leaves the live
   statistics, and so every later snapshot, as they were. *)
C23_SnapshotIsACopy ==
    [][hist'.snapshot # Null =>
         /\ FieldsOf(hist'.snapshot.object, stats') = hist'.snapshot.expected
         /\ (hist.snapshot # Null /\
               hist'.snapshot.mutations > hist.snapshot.mutations) =>
                stats' = stats]_vars

(* A snapshot taken before any success was scribbled on, and a success has
   been counted since: the live counters moved on, the snapshot did not. *)
C23_Witness ==
    /\ hist.snapshot # Null
    /\ hist.snapshot.mutations = 1
    /\ hist.snapshot.object.fields.totalAttempts = 99
    /\ hist.snapshot.object.fields.successfulDecodes = 0
    /\ stats.successfulDecodes = 1
    /\ stats.totalAttempts = 1

---------------------------------------------------------------------------
(* Decoding on a Ready engine: metadata whose idx_to_char has missing,
   empty, multi-character and out-of-charset entries, engine outputs with
   normalized and unnormalized scores, one call at a time *)

(* idx_to_char with an empty entry (class 1) and two-character entries
   (classes 2 and 4); class 5 has no entry. *)
MultiCharMetadata ==
    [GoodMetadata EXCEPT
       !.idx_to_char = (0 :> <<"A">> @@ 1 :> <<>> @@ 2 :> <<"A", "3">> @@
                        3 :> <<"7">> @@ 4 :> <<"3", "B">>)]

DecodeMetadataDocs == {GoodMetadata, MultiCharMetadata}

DecodeClasses ==
    {<<0, 1, 2, 3>>, <<4, 1, 2, 3>>, <<5, 0, 0, 0>>, <<2, 2, 0, 0>>,
     <<1, 1, 2, 2>>}

(* Softmax-like scores of 0.9, and raw scores of 2.0. *)
DecodeScores == {<<P(9), P(9), P(9), P(9)>>, <<P(20), P(20), P(20), P(20)>>}

(* Score vectors with several equal maxima: a tie between two classes at
   positions 0, 1 and 2, and the same score on every class. *)
TiedVectors ==
    <<<<P(9), P(9), Zero, Zero, Zero, Zero>>,
      <<Zero, P(9), Zero, P(9), Zero, Zero>>,
      <<Zero, Zero, P(8), P(8), Zero, Zero>>,
      <<Zero, Zero, Zero, P(10), Zero, Zero>>>>
FlatVectors == [pos \in 1..NumPositions |-> [i \in 1..6 |-> P(5)]]

DecodeImages ==
    {ScoreImage(cl, sc) : cl \in DecodeClasses, sc \in DecodeScores}
        \cup {VectorImage(TiedVectors), VectorImage(FlatVectors)}

DecodeImageLists == UNION {[1..n -> DecodeImages] : n \in 1..MaxBatch}

DecodeReady ==
    /\ session = SessionHandle
    /\ metadata \in DecodeMetadataDocs
    /\ isInitialized = TRUE
    /\ cache = CacheOf(metadata)
    /\ gpuStatus = StatusAfterCreate(InitialGpuStatus, FALSE, FALSE, <<"cpu">>)
    /\ stats = InitialStats
    /\ env = [useGpu |-> FALSE, platform |-> "linux",
              availableProviders |-> <<"cpu">>]
    /\ init = [pc |-> "ready", executionProviders |-> <<"cpu">>,
               sessionCreated |-> FALSE,
               creates |-> <<Created(<<"cpu">>, TRUE)>>,
               warmUp |-> [input |-> DummyTensor(2, 3), outcome |-> "ok"]]
    /\ calls = EmptyBag
    /\ settled = Null
    /\ now = 0
    /\ hist = InitialHist

NextDecode ==
    \/ \E img \in DecodeImages : Quiet /\ SolveCaptcha_Call(img)
    \/ \E r \in InFlight : SolveCaptcha_Preprocessed(r)
    \/ \E r \in InFlight : SolveCaptcha_Inferred(r)
    \/ \E imageBuffers \in DecodeImageLists : Quiet /\ SolveBatch_Call(imageBuffers)
    \/ \E r \in InFlight, i \in 1..MaxBatch : SolveBatch_ItemPreprocessed(r, i)
    \/ \E r \in InFlight, k \in 1..MaxBatch : SolveBatch_ItemInferred(r, k)
    \/ Deliver

SpecDecode == DecodeReady /\ [][NextDecode]_vars

Charset == {metadata.chars[i] : i \in 1..Len(metadata.chars)}

(* C11: every result with success=true has a code of length exactly 4 whose
   characters all belong to the chars of the metadata, whatever idx_to_char
   maps the winning classes to. *)
C11_SuccessCodeIsValid ==
    ReadyCallSettled =>
        \A i \in 1..Len(settled.results) :
            settled.results[i].success =>
                /\ Len(settled.results[i].code) = 4
                /\ \A j \in 1..Len(settled.results[i].code) :
                      settled.results[i].code[j] \in Charset

(* With the multi-character mapping, classes 0,1,2,3 decode to
   "A" + "" + "A3" + "7", which is returned as a success. *)
C11_Witness ==
    /\ ReadyCallSettled
    /\ metadata = MultiCharMetadata
    /\ Len(settled.results) = 1
    /\ settled.results[1].success
    /\ settled.results[1].code = <<"A", "A", "3", "7">>

(* C12: every result with success=true has a confidence in [0, 1], for
   normalized and for unnormalized scores. *)
C12_SuccessConfidenceInUnitInterval ==
    ReadyCallSettled =>
        \A i \in 1..Len(settled.results) :
            settled.results[i].success =>
                /\ RatLe(Zero, settled.results[i].confidence)
                /\ RatLe(settled.results[i].confidence, RatOfInt(1))

---------------------------------------------------------------------------
(* Initialization: fallback, failure, backend status *)

LastCreate == init.creates[Len(init.creates)]

(* Acceleration was requested and the create with the preference list threw. *)
FellBack == env.useGpu /\ init.creates # <<>> /\ ~init.creates[1].ok

(* C13: when acceleration is requested and the create with the full
   preference list throws, initialize() retries exactly once, with ["cpu"]
   alone, never rejects on account of the first failure, and once the retry,
   the metadata and the warm-up have succeeded the engine is Ready with
   provider "cpu" and available false. *)
C13_FallbackToCpu ==
    FellBack =>
        /\ Len(init.creates) <= 2
        /\ init.pc # "createCpu" =>
              /\ Len(init.creates) = 2
              /\ init.creates[2].executionProviders = <<"cpu">>
        /\ init.pc = "ready" =>
              /\ isReady
              /\ gpuStatus.provider = "cpu"
              /\ gpuStatus.available = FALSE

(* The first create threw, the retry succeeded and the engine is Ready. *)
C13_Witness ==
    /\ FellBack
    /\ init.pc = "ready"
    /\ isReady
    /\ init.creates = <<Created(PreferenceList(env.platform), FALSE),
                        Created(<<"cpu">>, TRUE)>>

(* The create with ["cpu"] alone threw. *)
ConstructionFailed ==
    /\ init.creates # <<>>
    /\ ~LastCreate.ok
    /\ LastCreate.executionProviders = <<"cpu">>

(* C14: when the compute-only create fails, as the only attempt or as the
   retry, initialize() has rejected, isReady() is false and no solve call
   gets past the guard: none is in flight, none is counted, and every call
   returns the not-ready records. *)
C14_ConstructionFailureIsFatal ==
    ConstructionFailed =>
        /\ init.pc = "failed"
        /\ ~isReady
        /\ session = Null
        /\ Quiet
        /\ stats = InitialStats
        /\ settled # Null => ~settled.ready

(* The retry after a failed accelerated create threw as well, and a batch
   call made afterwards has returned its not-ready records. *)
C14_Witness ==
    /\ ConstructionFailed
    /\ Len(init.creates) = 2
    /\ settled # Null
    /\ settled.kind = "batch"
    /\ Len(settled.results) = 2
    /\ ~settled.results[1].success

(* C15: with USE_GPU=false, after a successful initialize(), whatever the
   runtime reports, the status has enabled=false, available=false and
   provider="cpu", and exactly one create, with ["cpu"], was made. *)
C15_DisabledMeansCpu ==
    (~env.useGpu /\ init.pc = "ready") =>
        /\ gpuStatus.enabled = FALSE
        /\ gpuStatus.available = FALSE
        /\ gpuStatus.provider = "cpu"
        /\ init.creates = <<Created(<<"cpu">>, TRUE)>>

(* Acceleration is disabled on a machine whose runtime reports dml and cuda,
   and the engine is Ready. *)
C15_Witness ==
    /\ ~env.useGpu
    /\ env.availableProviders = <<"dml", "cuda", "cpu">>
    /\ init.pc = "ready"
    /\ isReady

(* C16: after a successful construction, provider is the first requested
   backend that the runtime reports as available, and "cpu" if it reports
   none of them. *)
C16_ProviderIsFirstAvailable ==
    init.pc \in {"readMetadata", "warmup", "ready"} =>
        gpuStatus.provider =
            ActiveProvider(LastCreate.executionProviders, env.availableProviders)

(* C17: available is true only when the backend that is active is one of
   cuda, dml, tensorrt, rocm. *)
C17_AvailableOnlyIfAccelerated ==
    (init.pc = "ready" /\ gpuStatus.available) =>
        ActiveProvider(LastCreate.executionProviders, env.availableProviders)
            \in GpuProviders

(* C18: after initialization, availableProviders holds exactly the backends
   the runtime reports, and requestedProviders is the list that was asked
   for. *)
C18_ProviderListsRecorded ==
    init.pc = "ready" =>
        /\ {gpuStatus.availableProviders[i] :
                i \in 1..Len(gpuStatus.availableProviders)}
             = {env.availableProviders[i] : i \in 1..Len(env.availableProviders)}
        /\ gpuStatus.requestedProviders = LastCreate.executionProviders

C20_ReadyOnlyAfterWarmUp ==
    /\ isReady =>
          /\ init.pc = "ready"
          /\ session # Null
          /\ LastCreate.ok
          /\ metadata # Null
          /\ ShapeOk(metadata)
          /\ HasNormalization(metadata)
          /\ cache = CacheOf(metadata)
          /\ init.warmUp.outcome = "ok"
          /\ init.warmUp.input = DummyTensor(cache.height, cache.width)
          /\ \A i \in DOMAIN init.warmUp.input.data :
                init.warmUp.input.data[i] = 0
    /\ init.warmUp.outcome = "threw" => (init.pc = "failed" /\ ~isReady)

(* The warm-up run threw after the session and the metadata were in place. *)
C20_Witness ==
    /\ init.warmUp.outcome = "threw"
    /\ session # Null
    /\ metadata = GoodMetadata
    /\ cache = CacheOf(GoodMetadata)
    /\ ~isReady

---------------------------------------------------------------------------
(* Initialization: malformed metadata *)

(* C21: when the input_shape of the metadata document has a length other
   than 3 or 4, initialize() has rejected and the engine is not Ready,
   although the session was constructed. *)
C21_BadShapeIsFatal ==
    (metadata # Null /\ Len(metadata.input_shape) \notin {3, 4}) =>
        /\ init.pc = "failed"
        /\ ~isReady
        /\ session # Null
        /\ init.warmUp.outcome = "none"

(* The document with an input_shape of length 5 was read after a successful
   create, and a call made afterwards got the not-ready record. *)
C21_Witness ==
    /\ metadata = LongShapeMetadata
    /\ session = SessionHandle
    /\ init.pc = "failed"
    /\ settled # Null
    /\ ~settled.ready

(* normalization, normalization.mean or normalization.std is absent or an
   empty sequence. *)
NormalizationMissing(doc) ==
    \/ ~HasMean(doc)
    \/ ~HasStd(doc)
    \/ doc.normalization.mean = <<>>
    \/ doc.normalization.std = <<>>

(* C22: when the metadata document lacks normalization entries, initialize()
   does not complete and the engine does not become Ready. *)
C22_MissingNormalizationIsFatal ==
    (metadata # Null /\ ShapeOk(metadata) /\ NormalizationMissing(metadata)) =>
        /\ init.pc # "ready"
        /\ ~isReady

---------------------------------------------------------------------------
(* Batch items against single solves *)

Outcome(result) ==
    [success |-> result.success, code |-> result.code,
     confidence |-> result.confidence]

(* What solveCaptcha can return for the image alone: the null-tensor record,
   or the record of lines 774-871 for an outcome of session.run. *)
SingleOutcomes(img) ==
    IF PreprocessImage(img) = Null
    THEN {Outcome(OnNoTensor(CountAttempt(InitialStats), 0).result)}
    ELSE {Outcome(OnRunSettled(CountAttempt(InitialStats), o, session.outputNames,
                               metadata.idx_to_char, cache.validCharacters,
                               0).result) : o \in RunOutcomes(img)}

(* C24: the results of a solveBatch call stand at the positions of their
   inputs, and each one is what solveCaptcha returns for that image alone;
   a failing item leaves the results of the others where and what they
   are. *)
C24_BatchItemsAsSingles ==
    (ReadyCallSettled /\ settled.kind = "batch" /\ settled.outcome = "returned") =>
        \A i \in 1..Len(settled.images) :
            /\ i <= Len(settled.results)
            /\ Outcome(settled.results[i]) \in SingleOutcomes(settled.images[i])

---------------------------------------------------------------------------
(* Preprocessing failures and the order of the steps of an attempt, on a
   Ready engine *)

PreprocessInputs == {ImgCorrupt, ImgNoResize, ImgNoTensor, ImgHigh, ImgInvalid}
PreprocessInputLists == UNION {[1..n -> PreprocessInputs] : n \in 1..MaxBatch}

NextPreprocess ==
    \/ \E img \in PreprocessInputs : SolveCaptcha_Call(img)
    \/ \E r \in InFlight : SolveCaptcha_Preprocessed(r)
    \/ \E r \in InFlight : SolveCaptcha_Inferred(r)
    \/ \E imageBuffers \in PreprocessInputLists : SolveBatch_Call(imageBuffers)
    \/ \E r \in InFlight, i \in 1..MaxBatch : SolveBatch_ItemPreprocessed(r, i)
    \/ \E r \in InFlight, k \in 1..MaxBatch : SolveBatch_ItemInferred(r, k)
    \/ Deliver

SpecPreprocess == ReadyState /\ [][NextPreprocess]_vars

(* The call r has taken a step: one copy of it has left the bag. *)
Stepped(r) == CopiesIn(r, calls') < CopiesIn(r, calls)

(* Every tensor session.run was started on is a tensor preprocessImage
   returned for an image of the call. *)
HasItsTensors(r) ==
    IF r.kind = "single"
    THEN PreprocessImage(r.images[1]) = [tensorOf |-> r.images[1]]
    ELSE /\ r.tensors # <<>>
         /\ r.tensors =
              FilterTensors([i \in 1..Len(r.images) |-> PreprocessImage(r.images[i])])
         /\ \A k \in 1..Len(r.tensors) :
              r.tensors[k] = [tensorOf |-> r.images[r.origin[k]]]

(* C25: a call is at session.run only after it was at preprocessImage and
   only with the tensors preprocessImage produced, so never for a null; and
   a success is counted only in the step in which a session.run of a call
   has settled. *)
C25_PreprocessThenInferThenDecode ==
    [][/\ \A r \in InFlight' :
            r.pc = "infer" =>
                /\ HasItsTensors(r)
                /\ \E q \in InFlight :
                      /\ q.kind = r.kind
                      /\ q.images = r.images
                      /\ q.pc \in {"preprocess", "infer"}
                      /\ (q.pc = "preprocess" /\ q # r) => Stepped(q)
       /\ stats'.successfulDecodes # stats.successfulDecodes =>
            \E q \in InFlight : q.pc = "infer" /\ Stepped(q)
       /\ \A r \in InFlight' :
            (r.pc = "preprocess" /\ r \notin InFlight) =>
                \A q \in InFlight : Stepped(q) => q.pc = "preprocess"]_vars

(* A batch of a corrupt and a good image is at session.run, with the one
   tensor of the good image. *)
C25_Witness ==
    \E r \in InFlight :
        /\ r.pc = "infer"
        /\ r.kind = "batch"
        /\ r.images = <<ImgCorrupt, ImgHigh>>
        /\ r.tensors = <<[tensorOf |-> ImgHigh]>>

(* C28: when a step of preprocessImage throws, preprocessImage returns null,
   and the solveCaptcha call that awaited it returns the failure record in
   that same step: failures is incremented, nothing else is counted, and no
   session.run is started. *)
C28_PreprocessFailureIsNull ==
    [][\A r \in InFlight :
          (r.kind = "single" /\ r.pc = "preprocess" /\
           FailsAt(r.images[1]) # "none" /\ Stepped(r)) =>
              /\ PreprocessImage(r.images[1]) = Null
              /\ BagCardinality(calls') = BagCardinality(calls) - 1
              /\ settled' # Null
              /\ settled'.outcome = "returned"
              /\ settled'.images = r.images
              /\ Len(settled'.results) = 1
              /\ IsFailureRecord(settled'.results[1])
              /\ stats'.failures = stats.failures + 1
              /\ stats'.successfulDecodes = stats.successfulDecodes
              /\ stats'.totalAttempts = stats.totalAttempts]_vars

(* solveCaptcha on a buffer for which the Tensor constructor throws has
   returned the failure record. *)
C28_Witness ==
    /\ ReadyCallSettled
    /\ settled.kind = "single"
    /\ settled.images = <<ImgNoTensor>>
    /\ settled.outcome = "returned"
    /\ IsFailureRecord(settled.results[1])
    /\ stats.failures >= 1

---------------------------------------------------------------------------
(* The decoder and the validation against what they are meant to compute *)

(* The score vector the engine returns for the image at position pos
   (0-based). *)
ScoresAt(img, pos) ==
    LET o == CHOOSE o \in RunOutcomes(img) : ~o.rejects
    IN  o.outputs[session.outputNames[pos + 1]].data

(* The lowest 0-based index holding the maximum of the vector. *)
LowestMaxIndex(v) ==
    CHOOSE m \in 0..(Len(v) - 1) :
        /\ \A i \in 1..Len(v) : RatLe(v[i], v[m + 1])
        /\ \A i \in 1..m : RatLt(v[i], v[m + 1])

CharAt(img, pos) ==
    LET m == LowestMaxIndex(ScoresAt(img, pos))
    IN  IF m \in DOMAIN metadata.idx_to_char THEN metadata.idx_to_char[m]
        ELSE UndefinedText

MaxAt(img, pos) ==
    LET v == ScoresAt(img, pos) IN v[LowestMaxIndex(v) + 1]

Candidate(img) ==
    CharAt(img, 0) \o CharAt(img, 1) \o CharAt(img, 2) \o CharAt(img, 3)

MeanOfMaxima(img) ==
    RatDivInt(RatAdd(RatAdd(MaxAt(img, 0), MaxAt(img, 1)),
                     RatAdd(MaxAt(img, 2), MaxAt(img, 3))), 4)

(* The image whose result stands at position k of the settled call. *)
ImageOfResult(k) == settled.images[settled.origin[k]]

(* C26: for every image a call has decoded, the decoder takes at each of
   the 4 positions the lowest index holding the maximum score, maps it
   through idx_to_char, concatenates the 4 entries in position order, and
   takes the mean of the 4 maxima as confidence; a success carries that
   candidate and that confidence. *)
C26_DecoderPicksFirstMaximum ==
    ReadyCallSettled =>
        \A k \in 1..Len(settled.results) :
            LET img == ImageOfResult(k)
                dec == Decode(VectorOutputs([p \in 1..NumPositions |->
                                                ScoresAt(img, p - 1)]),
                              session.outputNames, metadata.idx_to_char)
            IN  /\ ~dec.threw
                /\ dec.predictedText = Candidate(img)
                /\ dec.avgConfidence = MeanOfMaxima(img)
                /\ settled.results[k].success =>
                      /\ settled.results[k].code = Candidate(img)
                      /\ settled.results[k].confidence = MeanOfMaxima(img)

(* The image with ties at three positions decoded to "A3B7", the lowest
   tied class at each position, with confidence (0.9+0.9+0.8+1.0)/4. *)
C26_Witness ==
    /\ ReadyCallSettled
    /\ metadata = GoodMetadata
    /\ settled.images = <<VectorImage(TiedVectors)>>
    /\ settled.results[1].success
    /\ settled.results[1].code = <<"A", "3", "B", "7">>
    /\ settled.results[1].confidence = P(9)

(* C27: an attempt whose preprocessing and inference succeeded returns
   success=true, with the candidate as code, exactly when the candidate has
   length 4 and all its characters are in chars; otherwise it returns the
   failure record. *)
C27_SuccessIffValid ==
    ReadyCallSettled =>
        \A k \in 1..Len(settled.results) :
            LET candidate == Candidate(ImageOfResult(k))
                valid == /\ Len(candidate) = 4
                         /\ \A j \in 1..Len(candidate) : candidate[j] \in Charset
            IN  /\ settled.results[k].success <=> valid
                /\ settled.results[k].success =>
                      settled.results[k].code = candidate
                /\ ~settled.results[k].success =>
                      IsFailureRecord(settled.results[k])

(* The winning class of position 0 has no idx_to_char entry, and the
   attempt has failed. *)
C27_Witness ==
    /\ ReadyCallSettled
    /\ Len(settled.results) = 1
    /\ settled.images[1].id = "scores"
    /\ settled.images[1].classes = <<5, 0, 0, 0>>
    /\ IsFailureRecord(settled.results[1])

---------------------------------------------------------------------------
(* What the solve calls leave alone *)

(* C29: once the engine is Ready, no step of solveCaptcha, solveBatch or
   preprocessing changes the session handle, the metadata, the cached
   height/width/mean/std/charset/input name, the Ready flag or the backend
   status. *)
C29_SolveCallsChangeOnlyStats ==
    [][isReady =>
          /\ session' = session
          /\ metadata' = metadata
          /\ cache' = cache
          /\ isInitialized' = isInitialized
          /\ gpuStatus' = gpuStatus]_vars

(* Single and batch calls have completed, with successes and failures, the
   counters have moved, and the engine state is the one initialization
   left. *)
C29_Witness ==
    /\ isReady
    /\ Quiet
    /\ hist.okResults >= 1
    /\ hist.failResults >= 1
    /\ stats.totalAttempts >= 2
    /\ session = SessionHandle
    /\ metadata = GoodMetadata
    /\ cache = CacheOf(GoodMetadata)
    /\ gpuStatus = StatusAfterCreate(InitialGpuStatus, FALSE, FALSE, <<"cpu">>)

(* C30: a solveCaptcha or solveBatch call made while the engine is not Ready
   returns at once, solveCaptcha with the failure record and solveBatch with
   one failure record per input image, starts no preprocessing and no
   inference, and leaves every statistics field as it was. *)
C30_NotReadyCallsFailUntouched ==
    [][(~isReady /\ settled = Null /\ settled' # Null) =>
          /\ ~settled'.ready
          /\ Len(settled'.results) = Len(settled'.images)
          /\ settled'.kind = "single" => Len(settled'.results) = 1
          /\ \A i \in 1..Len(settled'.results) :
                IsFailureRecord(settled'.results[i])
          /\ calls' = calls
          /\ stats' = stats
          /\ hist' = hist]_vars

(* While the warm-up inference of initialize() is still pending, a batch of
   two images has been answered with two failure records and the counters
   are the initial ones. *)
C30_Witness ==
    /\ init.pc = "warmup"
    /\ ~isReady
    /\ settled # Null
    /\ ~settled.ready
    /\ settled.kind = "batch"
    /\ Len(settled.images) = 2
    /\ Len(settled.results) = 2
    /\ \A i \in 1..2 : IsFailureRecord(settled.results[i])
    /\ Quiet
    /\ stats = InitialStats

---------------------------------------------------------------------------
(* Attempts in flight *)

(* The attempts of one suspended call that totalAttempts has counted and
   that have no result yet: a solveCaptcha call is counted at entry, the
   items of a solveBatch call once their tensors have survived the filter. *)
OpenAttempts(r) ==
    IF r.kind = "single" THEN 1
    ELSE IF r.pc = "preprocess" THEN 0
    ELSE Cardinality({k \in 1..Len(r.results) : r.results[k] = Pending})

RECURSIVE OpenAttemptsOf(_)
OpenAttemptsOf(rs) ==
    IF rs = {} THEN 0
    ELSE LET r == CHOOSE r \in rs : TRUE
         IN  CopiesIn(r, calls) * OpenAttempts(r) + OpenAttemptsOf(rs \ {r})

(* C31: in every reachable state totalAttempts - (successfulDecodes +
   failures) is the number of attempts counted in totalAttempts that have
   not produced their result yet; it is never negative and it is 0 when no
   attempt is in flight. *)
C31_GapIsAttemptsInFlight ==
    LET gap == stats.totalAttempts - (stats.successfulDecodes + stats.failures)
    IN  /\ gap = OpenAttemptsOf(InFlight)
        /\ gap >= 0
        /\ Quiet => gap = 0

(* A solveCaptcha call and one item of a batch are suspended, after another
   item of that batch has produced its result: the gap is 2 with 3 counted. *)
C31_Witness ==
    /\ stats.totalAttempts = 3
    /\ stats.successfulDecodes + stats.failures = 1
    /\ \E r \in InFlight : r.kind = "single"
    /\ \E r \in InFlight :
          /\ r.kind = "batch"
          /\ r.pc = "infer"
          /\ Len(r.results) = 2
          /\ \E k \in 1..2 : r.results[k] # Pending

---------------------------------------------------------------------------
(* The two phases of a batch *)

PendingItems(pre) == {i \in 1..Len(pre) : pre[i] = Pending}
SurvivingItems(pre) == {i \in 1..Len(pre) : pre[i] # Pending /\ pre[i] # Null}

(* The suspended call r has been replaced by r2. *)
BecameCall(r, r2) ==
    /\ Stepped(r)
    /\ r2 \in InFlight'
    /\ CopiesIn(r2, calls') > CopiesIn(r2, calls)

(* C32: while some item of a solveBatch call is still being preprocessed, a
   step of that call starts no inference and changes no statistics counter;
   the step in which the last item finishes preprocessing starts the
   inference of every surviving item, counts each of them once, and leaves
   all of them pending: none has completed. *)
C32_BatchPreprocessesThenInfers ==
    [][\A r \in InFlight :
          (r.kind = "batch" /\ r.pc = "preprocess" /\ Stepped(r)) =>
              IF Cardinality(PendingItems(r.pre)) > 1
              THEN /\ stats' = stats
                   /\ settled' = settled
                   /\ \E r2 \in InFlight' :
                         /\ BecameCall(r, r2)
                         /\ r2.pc = "preprocess"
                         /\ r2.images = r.images
                         /\ Cardinality(PendingItems(r2.pre)) =
                               Cardinality(PendingItems(r.pre)) - 1
              ELSE \/ /\ settled' # Null
                      /\ settled'.results = <<>>
                      /\ SurvivingItems(r.pre) = {}
                      /\ stats' = stats
                   \/ \E r2 \in InFlight' :
                         /\ BecameCall(r, r2)
                         /\ r2.pc = "infer"
                         /\ Len(r2.tensors) >= Cardinality(SurvivingItems(r.pre))
                         /\ Len(r2.tensors) <= Cardinality(SurvivingItems(r.pre)) + 1
                         /\ Len(r2.results) = Len(r2.tensors)
                         /\ \A k \in 1..Len(r2.results) : r2.results[k] = Pending
                         /\ stats' = [stats EXCEPT
                                        !.totalAttempts = @ + Len(r2.tensors)]]_vars

(* A batch of two images whose first item failed preprocessing has started
   the one inference of its second item, which is pending and counted. *)
C32_Witness ==
    \E r \in InFlight :
        /\ r.kind = "batch"
        /\ r.pc = "infer"
        /\ Len(r.images) = 2
        /\ r.origin = <<2>>
        /\ r.results = <<Pending>>
        /\ stats.totalAttempts = 1
        /\ stats.failures = 0

---------------------------------------------------------------------------
(* getGpuStatus() and the object it returns *)

ScalarFields == {"enabled", "available", "provider"}
ListFields == {"availableProviders", "requestedProviders"}

(* Lines 652-653: after initialize() both list fields of this.gpuStatus hold
   one and the same array, the executionProviders of the create that
   succeeded. *)
ArrayHeldBy ==
    [requestedProviders |-> "executionProviders",
     availableProviders |-> "executionProviders"]

(* { ...this.gpuStatus } (line 1000): a new object whose scalar fields are
   copies and whose list fields hold the arrays the live fields hold. *)
ShallowCopy(g) ==
    [scalars |-> [f \in ScalarFields |-> g[f]], lists |-> ArrayHeldBy]

(* The elements of an array, read through any field that holds it. *)
ArrayContents(array, g) ==
    g[CHOOSE f \in ListFields : ArrayHeldBy[f] = array]

(* An array changed in place: every field that holds it shows the change. *)
WriteArray(g, array, contents) ==
    [f \in DOMAIN g |->
        IF f \in ListFields /\ ArrayHeldBy[f] = array THEN contents ELSE g[f]]

(* What the holder of a returned object reads from it. *)
ReadGpuSnapshot(object, g) ==
    [f \in ScalarFields \cup ListFields |->
        IF f \in ScalarFields THEN object.scalars[f]
        ELSE ArrayContents(object.lists[f], g)]

(* Lines 999-1001: a caller calls getGpuStatus() and keeps the result. *)
GetGpuStatus ==
    /\ NoneSettled
    /\ hist' = [hist EXCEPT !.gpuSnapshot =
                   [object |-> ShallowCopy(gpuStatus),
                    mutations |-> IF hist.gpuSnapshot = Null THEN 0
                                  ELSE hist.gpuSnapshot.mutations]]
    /\ hist'.gpuSnapshot # hist.gpuSnapshot
    /\ UNCHANGED <<session, metadata, isInitialized, cache, gpuStatus, stats,
                   env, init, calls, settled, now>>

ListMutations == {"push", "clear"}

(* The caller appends to a list of the object it holds, or sets its length
   to 0. *)
MutateGpuList(field, op) ==
    /\ NoneSettled
    /\ hist.gpuSnapshot # Null
    /\ hist.gpuSnapshot.mutations < MaxMutations
    /\ LET array == hist.gpuSnapshot.object.lists[field]
           old == ArrayContents(array, gpuStatus)
           new == IF op = "push" THEN Append(old, "mine") ELSE <<>>
       IN  gpuStatus' = WriteArray(gpuStatus, array, new)
    /\ hist' = [hist EXCEPT !.gpuSnapshot.mutations = @ + 1]
    /\ UNCHANGED <<session, metadata, isInitialized, cache, stats, env, init,
                   calls, settled, now>>

(* The caller assigns to the provider field of the object it holds. *)
MutateGpuScalar ==
    /\ NoneSettled
    /\ hist.gpuSnapshot # Null
    /\ hist.gpuSnapshot.mutations < MaxMutations
    /\ hist' = [hist EXCEPT !.gpuSnapshot.object.scalars.provider = "mine",
                            !.gpuSnapshot.mutations = @ + 1]
    /\ UNCHANGED <<session, metadata, isInitialized, cache, gpuStatus, stats,
                   env, init, calls, settled, now>>

NextGpuSnapshot ==
    \/ \E img \in SnapshotImages : SolveCaptcha_Call(img)
    \/ \E r \in InFlight : SolveCaptcha_Preprocessed(r)
    \/ \E r \in InFlight : SolveCaptcha_Inferred(r)
    \/ Deliver
    \/ GetGpuStatus
    \/ \E field \in ListFields, op \in ListMutations : MutateGpuList(field, op)
    \/ MutateGpuScalar

SpecGpuSnapshot == ReadyState /\ [][NextGpuSnapshot]_vars

(* C33: a change the caller makes to the object getGpuStatus() returned, an
   append to or a clearing of one of its two lists included, leaves what
   getGpuStatus() returns afterwards as it was, and a change of one of the
   two lists leaves the other list of the object as it was. *)
C33_GpuSnapshotIsIsolated ==
    [][(/\ hist.gpuSnapshot # Null
        /\ hist'.gpuSnapshot # Null
        /\ hist'.gpuSnapshot.mutations > hist.gpuSnapshot.mutations) =>
          LET before == ReadGpuSnapshot(hist.gpuSnapshot.object, gpuStatus)
              after == ReadGpuSnapshot(hist'.gpuSnapshot.object, gpuStatus')
          IN  /\ gpuStatus' = gpuStatus
              /\ \A f \in ListFields :
                    after[f] # before[f] =>
                        \A g \in ListFields \ {f} : after[g] = before[g]]_vars

---------------------------------------------------------------------------
(* initialize() called again *)

MaxCreates == 2

(* initialize() that first takes the engine out of service. *)
Initialize_Again_Resets ==
    /\ init.pc \in {"ready", "failed"}
    /\ Len(init.creates) <= MaxCreates
    /\ isInitialized' = FALSE
    /\ init' = IF env.useGpu
               THEN [init EXCEPT !.pc = "createGpu",
                                 !.sessionCreated = FALSE,
                                 !.executionProviders = PreferenceList(env.platform)]
               ELSE [init EXCEPT !.pc = "createCpu",
                                 !.sessionCreated = FALSE,
                                 !.executionProviders = <<"cpu">>]
    /\ UNCHANGED <<session, metadata, cache, gpuStatus, stats, env, calls,
                   settled, now, hist>>

(* Lines 535-560: initialize() called on an engine that has completed or
   failed an initialization.  Nothing resets the fields: sessionCreated and
   executionProviders are fresh locals, isInitialized keeps its value. *)
Initialize_Again ==
    /\ init.pc \in {"ready", "failed"}
    /\ Len(init.creates) <= MaxCreates
    /\ isInitialized' = isInitialized
    /\ init' = IF env.useGpu
               THEN [init EXCEPT !.pc = "createGpu",
                                 !.sessionCreated = FALSE,
                                 !.executionProviders = PreferenceList(env.platform)]
               ELSE [init EXCEPT !.pc = "createCpu",
                                 !.sessionCreated = FALSE,
                                 !.executionProviders = <<"cpu">>]
    /\ UNCHANGED <<session, metadata, cache, gpuStatus, stats, env, calls,
                   settled, now, hist>>

RestartMetadataDocs == {GoodMetadata, BadShapeMetadata}

NextRestart ==
    \/ Initialize_Call
    \/ Initialize_GpuCreate
    \/ Initialize_CpuCreate
    \/ \E doc \in RestartMetadataDocs : Initialize_ReadMetadata(doc)
    \/ Initialize_WarmUp
    \/ Initialize_Again
    \/ \E img \in SnapshotImages : SolveCaptcha_Call(img)
    \/ \E r \in InFlight : SolveCaptcha_Preprocessed(r)
    \/ \E r \in InFlight : SolveCaptcha_Inferred(r)
    \/ Deliver

SpecRestart == StartupInit /\ [][NextRestart]_vars

(* A create has resolved: the status lines that follow it have recorded the
   backend. *)
BackendSelected == \E i \in 1..Len(init.creates) : init.creates[i].ok

BackendNames == {"cpu"} \cup GpuProviders

(* C34: provider is null as long as no initialization has selected a
   backend, it is the name of a backend in every state in which the engine
   is Ready, and isReady(), once true, stays true: through solve calls and
   through later initialize() calls, failed ones included. *)
C34_ProviderAndReadyAreStable ==
    /\ [](~BackendSelected => getGpuStatus.provider = NullName)
    /\ [](isReady => getGpuStatus.provider \in BackendNames)
    /\ [][isReady => isReady']_vars

(* A Ready engine was initialized again, that initialization failed, and
   the engine still reports Ready with a backend name. *)
C34_Witness ==
    /\ init.pc = "failed"
    /\ isReady
    /\ init.warmUp.outcome = "ok"
    /\ ~init.creates[Len(init.creates)].ok
    /\ getGpuStatus.provider \in BackendNames

====
